---- MODULE Spec2Model ----
(***************************************************************************)
(* Model of the geoshapes request pipeline of kartotherian (class          *)
(* GeoShapes: _parseParams, execute, _runWikidataQuery, _runSqlQuery,       *)
(* _expandProperties, _wrapResult) and of core.registerTileliveModule.     *)
(*                                                                         *)
(* JavaScript strings are modelled as sequences of one-character strings,  *)
(* so that split, regular expressions and JSON parsing are computed and    *)
(* not assumed.  `undefined` is the value Undefined.                        *)
(***************************************************************************)
EXTENDS Integers, Sequences, FiniteSets, TLC

VARIABLES
    config,     \* the configuration object handed to every GeoShapes
    pReq,       \* _parseParams: the raw reqParams under test
    pRes,       \* _parseParams: its outcome
    req,        \* per request: type, reqParams, xClientIp of the caller
    pc,         \* per request: position of constructor / execute
    self,       \* per request: fields of the GeoShapes object
    raw,        \* per request: rawProperties (result of _runWikidataQuery)
    sql,        \* per request: state of the _runSqlQuery promise
    exp,        \* per request: state of the _expandProperties promise
    join,       \* per request: state of the Promise.all of the two
    out,        \* per request: outcome of execute
    calls,      \* per request: log of outbound calls and of _wrapResult calls
    wIn,        \* _wrapResult: arguments under test
    wProps,     \* _wrapResult: the properties array (mutated in place)
    wOut,       \* _wrapResult: its return value
    npmModules, \* core: what _npmLoader finds for each module name
    registeredModules,  \* core: the object core._registeredModules
    coreLog     \* core: what each registerTileliveModule call did

vars == <<config, pReq, pRes, req, pc, self, raw, sql, exp, join, out, calls,
          wIn, wProps, wOut, npmModules, registeredModules, coreLog>>

parseVars == <<pReq, pRes>>
execVars == <<req, pc, self, raw, sql, exp, join, out, calls>>
wrapVars == <<wIn, wProps, wOut>>
coreVars == <<npmModules, registeredModules, coreLog>>

-----------------------------------------------------------------------------
(* Bounds of the model *)

\* longest sequence of core.registerTileliveModule calls
MaxCalls == 3

\* longest id list (number of comma-separated tokens) given to _parseParams
MaxTokens == 3

\* value of config.maxidcount in the modelled configuration
maxidcount == 2

\* longest sequence of geometry rows given to _wrapResult
MaxRows == 2

\* longest sequence of clean property rows given to _wrapResult
MaxProps == 2

-----------------------------------------------------------------------------
(* JavaScript values *)

Undefined == <<"undefined">>

\* JavaScript truthiness of an optional string
Truthy(v) == v # Undefined /\ v # <<>>

\* entity ids and a SPARQL query used as inputs
Q1 == <<"Q", "1">>

Q2 == <<"Q", "2">>

Q3 == <<"Q", "3">>

SomeQuery == <<"S">>

Digits == {"0", "1", "2", "3", "4", "5", "6", "7", "8", "9"}

IsDigit(c) == c \in Digits

\* index of the first occurrence of c in s, 0 when there is none
IndexOf(s, c) ==
    IF \E i \in 1..Len(s) : s[i] = c
    THEN CHOOSE i \in 1..Len(s) : s[i] = c /\ \A j \in 1..(i - 1) : s[j] # c
    ELSE 0

RECURSIVE Split(_, _)
\* String.prototype.split with a one-character separator
Split(s, c) ==
    LET i == IndexOf(s, c) IN
    IF i = 0 THEN <<s>>
    ELSE <<SubSeq(s, 1, i - 1)>> \o Split(SubSeq(s, i + 1, Len(s)), c)

RECURSIVE Join(_, _)
\* Array.prototype.join with a one-character separator
Join(toks, c) ==
    IF toks = <<>> THEN <<>>
    ELSE IF Len(toks) = 1 THEN toks[1]
    ELSE toks[1] \o <<c>> \o Join(Tail(toks), c)

Range(s) == {s[i] : i \in 1..Len(s)}

RECURSIVE NewSet(_)
\* new Set(array): distinct elements in order of first insertion
NewSet(a) ==
    IF a = <<>> THEN <<>>
    ELSE LET init == NewSet(SubSeq(a, 1, Len(a) - 1))
             last == a[Len(a)]
         IN IF last \in Range(init) THEN init ELSE Append(init, last)

\* Set.prototype.delete
SetDelete(s, x) == SelectSeq(s, LAMBDA e : e # x)

-----------------------------------------------------------------------------
(* GeoShapes._parseParams *)

EntityIdRegexTestNoAnchor(id) ==
    \E i \in 1..Len(id) : \E j \in (i + 1)..Len(id) :
        /\ id[i] = "Q"
        /\ id[i + 1] \in Digits \ {"0"}
        /\ j - (i + 1) <= 15
        /\ \A k \in (i + 2)..j : IsDigit(id[k])

\* /^Q[1-9][0-9]{0,15}$/.test( id )
EntityIdRegexTest(id) ==
    /\ Len(id) >= 2
    /\ id[1] = "Q"
    /\ id[2] \in Digits \ {"0"}
    /\ Len(id) - 2 <= 15
    /\ \A k \in 3..Len(id) : IsDigit(id[k])

ParseErr(e) == [err |-> e]

ParseParamsNoEmptyDelete(cfg, rp) ==
    IF ~Truthy(rp.ids) /\ ~Truthy(rp.query) THEN ParseErr("InvalidInput")
    ELSE IF Truthy(rp.query) /\ ~Truthy(cfg.wikidataQueryService)
    THEN ParseErr("FeatureDisabled")
    ELSE
    LET ids == NewSet(IF Truthy(rp.ids) THEN Split(rp.ids, ",") ELSE <<>>) IN
    IF Len(ids) > cfg.maxidcount THEN ParseErr("TooManyIds")
    ELSE IF \E i \in 1..Len(ids) : ~EntityIdRegexTest(ids[i])
    THEN ParseErr("InvalidId")
    ELSE [err |-> "none", sparqlQuery |-> rp.query, ids |-> ids,
          idColumn |-> rp.idcolumn, useGeoJson |-> Truthy(rp.getgeojson),
          queryName |-> rp.sql]

ParseParamsIdsFirst(cfg, rp) ==
    IF ~Truthy(rp.ids) /\ ~Truthy(rp.query) THEN ParseErr("InvalidInput")
    ELSE IF Truthy(rp.query) /\ ~Truthy(cfg.wikidataQueryService)
    THEN ParseErr("FeatureDisabled")
    ELSE
    LET ids == SetDelete(
            NewSet(IF Truthy(rp.ids) THEN Split(rp.ids, ",") ELSE <<>>), <<>>)
    IN
    IF \E i \in 1..Len(ids) : ~EntityIdRegexTest(ids[i])
    THEN ParseErr("InvalidId")
    ELSE IF Len(ids) > cfg.maxidcount THEN ParseErr("TooManyIds")
    ELSE [err |-> "none", sparqlQuery |-> rp.query, ids |-> ids,
          idColumn |-> rp.idcolumn, useGeoJson |-> Truthy(rp.getgeojson),
          queryName |-> rp.sql]

\* _parseParams( reqParams ): the thrown error, or the normalized parameters
ParseParams(cfg, rp) ==
    IF ~Truthy(rp.ids) /\ ~Truthy(rp.query) THEN ParseErr("InvalidInput")
    ELSE IF Truthy(rp.query) /\ ~Truthy(cfg.wikidataQueryService)
    THEN ParseErr("FeatureDisabled")
    ELSE
    LET ids == SetDelete(
            NewSet(IF Truthy(rp.ids) THEN Split(rp.ids, ",") ELSE <<>>), <<>>)
    IN
    IF Len(ids) > cfg.maxidcount THEN ParseErr("TooManyIds")
    ELSE IF \E i \in 1..Len(ids) : ~EntityIdRegexTest(ids[i])
    THEN ParseErr("InvalidId")
    ELSE [err |-> "none", sparqlQuery |-> rp.query, ids |-> ids,
          idColumn |-> rp.idcolumn, useGeoJson |-> Truthy(rp.getgeojson),
          queryName |-> rp.sql]

-----------------------------------------------------------------------------
(* Optional values that are not strings (arrays, objects) *)

None == [some |-> FALSE]

Some(x) == [some |-> TRUE, v |-> x]

\* object without one key (the delete operator, object rest patterns)
Without(f, k) == [x \in DOMAIN f \ {k} |-> f[x]]

\* {}
EmptyObject == <<>>

-----------------------------------------------------------------------------
(* The configuration handed to GeoShapes *)

polygonTable == "wikidata_relation_polygon"

lineTable == "wikidata_relation_members"

\* config.queries: a template with one customizable and one fixed parameter,
\* and a template without parameters
queries ==
    [default |-> [sql |-> "SQL_DEFAULT",
                  params |-> <<[name |-> "arg1", default |-> <<"5">>],
                               [name |-> "", default |-> <<"7">>]>>],
     simple  |-> [sql |-> "SQL_SIMPLE", params |-> <<>>]]

\* config.sparqlHeaders as configured
SparqlHeaders0 == [ua |-> "kartotherian"]

ServiceUrl == <<"w">>

Configs ==
    {[maxidcount |-> maxidcount, wikidataQueryService |-> u,
      sparqlHeaders |-> SparqlHeaders0] : u \in {Undefined, ServiceUrl}}

-----------------------------------------------------------------------------
(* GeoShapes._runWikidataQuery and _processResultRow *)

\* Object.assign( target, source )
ObjectAssign(target, source) ==
    [k \in DOMAIN target \cup DOMAIN source |->
        IF k \in DOMAIN source THEN source[k] ELSE target[k]]

\* a binding value of the graph-query service; an entity URI is the prefix
\* "/" followed by the entity id
WdUri(id) == [type |-> "uri", value |-> <<"/">> \o id]

WdLiteral(v) == [type |-> "literal", value |-> v]

\* parseWikidataValue (package wd-type-parser): the entity id of an entity
\* URI, the text of a literal
ParseWikidataValue(v) ==
    IF v.type = "uri"
    THEN IF Len(v.value) > 0 /\ v.value[1] = "/" THEN Tail(v.value) ELSE Undefined
    ELSE v.value

\* _createPointsSparqlQuery( ids ): the ids it selects stand for the query text
CreatePointsSparqlQuery(ids) == <<"V">> \o Join(ids, " ")

defaultIdColumn == "id"

geoColumn == "geo"

\* _processResultRow( wd, customIdColumn ): an error or the raw property row
ProcessResultRow(wd, customIdColumn) ==
    LET idColumn == IF customIdColumn # "" THEN customIdColumn
                    ELSE defaultIdColumn
    IN
    IF idColumn \notin DOMAIN wd THEN [err |-> "MissingIdColumn"]
    ELSE
    LET value == wd[idColumn]
        id == ParseWikidataValue(value)
        rest == Without(wd, idColumn)
        keys == (DOMAIN rest \cup {"id"}) \cup
                (IF geoColumn \in DOMAIN wd THEN {"coordinate"} ELSE {})
    IN
    IF ~Truthy(id) \/ value.type # "uri" THEN [err |-> "InvalidGraphId"]
    ELSE [err |-> "none",
          row |-> [k \in keys |->
                    IF k = "coordinate" THEN ParseWikidataValue(wd[geoColumn])
                    ELSE IF k = "id" THEN id
                    ELSE rest[k]]]

EffectiveQueryAnyType(type, query, ids) ==
    IF ~Truthy(query) /\ Len(ids) > 0
    THEN CreatePointsSparqlQuery(ids)
    ELSE query

\* the query _runWikidataQuery sends, Undefined when it sends none
EffectiveQuery(type, query, ids) ==
    IF ~Truthy(query) /\ Len(ids) > 0 /\ type = "geopoint"
    THEN CreatePointsSparqlQuery(ids)
    ELSE query

\* the continuation of _runWikidataQuery after preq.get has settled
WikidataQueryResult(resp, customIdColumn) ==
    IF resp.kind = "reject" THEN [err |-> "TransportError"]
    ELSE IF resp.contentType # "application/sparql-results+json"
    THEN [err |-> "UnexpectedContentType"]
    ELSE IF ~resp.hasBindings THEN [err |-> "MalformedGraphResponse"]
    ELSE
    LET rows == [i \in 1..Len(resp.bindings) |->
                    ProcessResultRow(resp.bindings[i], customIdColumn)]
    IN IF \E i \in 1..Len(rows) : rows[i].err # "none"
       THEN [err |-> rows[CHOOSE i \in 1..Len(rows) :
                            /\ rows[i].err # "none"
                            /\ \A j \in 1..(i - 1) : rows[j].err = "none"].err]
       ELSE [err |-> "none", rows |-> [i \in 1..Len(rows) |-> rows[i].row]]

-----------------------------------------------------------------------------
(* GeoShapes._runSqlQuery *)

\* /^-?[0-9]+(\.[0-9]+)?$/ : the string is a numeric literal from end to end
IsNumericLiteral(s) ==
    \E a \in 0..1 : \E n \in 1..Len(s) : \E m \in 0..Len(s) :
        /\ Len(s) = a + n + (IF m = 0 THEN 0 ELSE m + 1)
        /\ (a = 1 => s[1] = "-")
        /\ \A k \in (a + 1)..(a + n) : IsDigit(s[k])
        /\ (m > 0 => s[a + n + 1] = ".")
        /\ \A k \in (a + n + 2)..Len(s) : IsDigit(s[k])

\* floatRegex.test( value ): the expression is not anchored, so it looks for
\* a numeric literal anywhere in the value
FloatRegexTest(value) ==
    \E i \in 1..Len(value) : \E j \in i..Len(value) :
        IsNumericLiteral(SubSeq(value, i, j))

\* config.queries[ queryKey ] || config.queries.default
QueryFor(queryKey) ==
    IF queryKey \in DOMAIN queries THEN queries[queryKey] ELSE queries.default

RECURSIVE PushParams(_, _, _)
\* query.params.forEach: the arguments pushed, or the error thrown
PushParams(params, rawParams, args) ==
    IF params = <<>> THEN [err |-> "none", args |-> args]
    ELSE
    LET param == Head(params)
        paramName == param.name
    IN
    IF paramName = "" \/ ~Truthy(rawParams[paramName])
    THEN PushParams(Tail(params), rawParams, Append(args, param.default))
    ELSE IF FloatRegexTest(rawParams[paramName])
    THEN [err |-> "InvalidParam", args |-> args]
    ELSE PushParams(Tail(params), rawParams,
                    Append(args, rawParams[paramName]))

Resolved(v) == [state |-> "resolved", value |-> v]

Rejected(e) == [state |-> "rejected", err |-> e]

Pending == [state |-> "pending"]

RunSqlQueryNoPointGuard(type, ids, queryKey, rawParams) ==
    IF Len(ids) = 0 THEN [promise |-> Resolved(<<>>), dbCall |-> <<>>]
    ELSE
    LET table == IF type = "geoshape" THEN polygonTable ELSE lineTable
        query == QueryFor(queryKey)
        pushed == PushParams(query.params, rawParams, <<>>)
    IN IF pushed.err # "none"
       THEN [promise |-> Rejected(pushed.err), dbCall |-> <<>>]
       ELSE [promise |-> Pending,
             dbCall |-> <<[sql |-> query.sql, table |-> table, ids |-> ids,
                           params |-> pushed.args]>>]

RunSqlQueryValidateLate(type, ids, queryKey, rawParams) ==
    IF Len(ids) = 0 \/ type = "geopoint"
    THEN [promise |-> Resolved(<<>>), dbCall |-> <<>>]
    ELSE
    LET table == IF type = "geoshape" THEN polygonTable ELSE lineTable
        query == QueryFor(queryKey)
        pushed == PushParams(query.params, rawParams, <<>>)
    IN [promise |-> IF pushed.err # "none" THEN Rejected(pushed.err)
                    ELSE Pending,
        dbCall |-> <<[sql |-> query.sql, table |-> table, ids |-> ids,
                      params |-> pushed.args]>>]

\* _runSqlQuery up to its first await: the promise it returns and the call
\* to db.query it has issued (none, or one with the positional arguments
\* table, ids, ...params)
RunSqlQuery(type, ids, queryKey, rawParams) ==
    IF Len(ids) = 0 \/ type = "geopoint"
    THEN [promise |-> Resolved(<<>>), dbCall |-> <<>>]
    ELSE
    LET table == IF type = "geoshape" THEN polygonTable ELSE lineTable
        query == QueryFor(queryKey)
        pushed == PushParams(query.params, rawParams, <<>>)
    IN IF pushed.err # "none"
       THEN [promise |-> Rejected(pushed.err), dbCall |-> <<>>]
       ELSE [promise |-> Pending,
             dbCall |-> <<[sql |-> query.sql, table |-> table, ids |-> ids,
                           params |-> pushed.args]>>]

-----------------------------------------------------------------------------
(* GeoShapes._expandProperties *)

simpleStyleProperties ==
    [fill_opacity |-> "fill-opacity", marker_color |-> "marker-color",
     marker_size |-> "marker-size", marker_symbol |-> "marker-symbol",
     stroke_opacity |-> "stroke-opacity", stroke_width |-> "stroke-width"]

StyleKey(key) ==
    IF key \in DOMAIN simpleStyleProperties THEN simpleStyleProperties[key]
    ELSE key

\* the value is truthy: a binding object always is, a parsed coordinate is
\* when it is a non-empty string (the parser, given that string instead of
\* a binding object, is taken to yield undefined)
TruthyProp(key, value) == key # "coordinate" \/ Truthy(value)

\* the placeholder feature built for one raw property row
PlaceholderFeature(row) ==
    LET prop == Without(row, "id")
        kept == {key \in DOMAIN prop : TruthyProp(key, prop[key])}
        from(k2) == CHOOSE key \in kept : StyleKey(key) = k2
    IN [type |-> "Feature",
        id |-> row.id,
        properties |-> [k2 \in {StyleKey(key) : key \in kept} |->
                          IF from(k2) = "coordinate" THEN Undefined
                          ELSE ParseWikidataValue(prop[from(k2)])],
        geometry |-> [type |-> "Point", coordinates |-> <<0, 0>>]]

\* _expandProperties up to its first await: the promise it returns and the
\* POST it has issued to the sanitization endpoint (none or one)
ExpandProperties(rawProperties) ==
    LET props == [i \in 1..Len(rawProperties) |->
                    PlaceholderFeature(rawProperties[i])]
    IN IF Len(props) = 0
       THEN [promise |-> Resolved(None), mwapiCall |-> <<>>]
       ELSE [promise |-> Pending, mwapiCall |-> <<[text |-> props]>>]

\* the continuation of _expandProperties after preq.post has settled
SanitizeResult(resp) ==
    IF resp.kind = "reject" THEN Rejected("TransportError")
    ELSE IF resp.kind # "sanitized" THEN Rejected("SanitizationError")
    ELSE Resolved(Some([i \in 1..Len(resp.sanitized) |->
            ObjectAssign(resp.sanitized[i].properties,
                         [id |-> resp.sanitized[i].id])]))

-----------------------------------------------------------------------------
(* GeoShapes._wrapResult *)

DigitChars == <<"0", "1", "2", "3", "4", "5", "6", "7", "8", "9">>

DigitValue(c) == (CHOOSE n \in 1..10 : DigitChars[n] = c) - 1

\* JSON.parse of a serialized geometry, here a JSON array of one-digit
\* numbers such as [1,2]
ParseJson(text) ==
    LET toks == Split(SubSeq(text, 2, Len(text) - 1), ",")
    IN [i \in 1..Len(toks) |-> DigitValue(toks[i][1])]

PointFeatureKeepGeo(value, idColumn) ==
    LET v1 == Without(Without(value, idColumn), "id")
        coordinates == IF geoColumn \in DOMAIN v1 THEN v1[geoColumn]
                       ELSE Undefined
    IN [feature |-> [type |-> "Feature",
                     id |-> IF "id" \in DOMAIN value THEN value.id
                            ELSE Undefined,
                     properties |-> v1,
                     geometry |-> [type |-> "Point",
                                   coordinates |-> coordinates]],
        value |-> v1]

\* the callback of properties.map for point kind: the feature, and the
\* property row as the deletes leave it
PointFeature(value, idColumn) ==
    LET v1 == Without(Without(value, idColumn), "id")
        coordinates == IF geoColumn \in DOMAIN v1 THEN v1[geoColumn]
                       ELSE Undefined
        v2 == Without(v1, geoColumn)
    IN [feature |-> [type |-> "Feature",
                     id |-> IF "id" \in DOMAIN value THEN value.id
                            ELSE Undefined,
                     properties |-> v2,
                     geometry |-> [type |-> "Point",
                                   coordinates |-> coordinates]],
        value |-> v2]

\* properties.find( ( props ) => row.id === props.id ): index of the first
\* match, 0 when there is none (or no properties at all)
FindProps(properties, id) ==
    IF ~properties.some THEN 0
    ELSE LET hit(i) == "id" \in DOMAIN properties.v[i]
                       /\ properties.v[i].id = id
         IN IF \E i \in 1..Len(properties.v) : hit(i)
            THEN CHOOSE i \in 1..Len(properties.v) :
                    hit(i) /\ \A j \in 1..(i - 1) : ~hit(j)
            ELSE 0

RECURSIVE ShapeFeaturesInnerJoin(_, _)
ShapeFeaturesInnerJoin(rows, properties) ==
    IF rows = <<>> THEN [features |-> <<>>, properties |-> properties]
    ELSE
    LET row == Head(rows)
        m == FindProps(properties, row.id)
        feature == [type |-> "Feature",
                    id |-> row.id,
                    properties |-> IF m = 0 THEN EmptyObject
                                   ELSE Without(properties.v[m], "id"),
                    geometry |-> ParseJson(row.data)]
        after == IF m = 0 THEN properties
                 ELSE Some([properties.v EXCEPT ![m] = Without(@, "id")])
        rest == ShapeFeaturesInnerJoin(Tail(rows), after)
    IN [features |-> (IF m = 0 THEN <<>> ELSE <<feature>>) \o rest.features,
        properties |-> rest.properties]

RECURSIVE ShapeFeatures(_, _)
\* rows.map for line/polygon kind, row by row: the features, and the
\* properties array as the deletes leave it (a matched property row is the
\* feature's properties object and loses its id)
ShapeFeatures(rows, properties) ==
    IF rows = <<>> THEN [features |-> <<>>, properties |-> properties]
    ELSE
    LET row == Head(rows)
        m == FindProps(properties, row.id)
        feature == [type |-> "Feature",
                    id |-> row.id,
                    properties |-> IF m = 0 THEN EmptyObject
                                   ELSE Without(properties.v[m], "id"),
                    geometry |-> ParseJson(row.data)]
        after == IF m = 0 THEN properties
                 ELSE Some([properties.v EXCEPT ![m] = Without(@, "id")])
        rest == ShapeFeatures(Tail(rows), after)
    IN [features |-> <<feature>> \o rest.features,
        properties |-> rest.properties]

\* topojson.topology( { data: result }, ... ) keeping every property
Topology(collection) == [type |-> "Topology", objects |-> [data |-> collection]]

\* the features and the properties array of _wrapResult
WrapFeatures(type, rows, properties, idColumn) ==
    IF type = "geopoint" /\ properties.some
    THEN LET made == [i \in 1..Len(properties.v) |->
                        PointFeature(properties.v[i], idColumn)]
         IN [features |-> [i \in 1..Len(made) |-> made[i].feature],
             properties |-> Some([i \in 1..Len(made) |-> made[i].value])]
    ELSE IF rows.some THEN ShapeFeatures(rows.v, properties)
    ELSE [features |-> <<>>, properties |-> properties]

\* _wrapResult( type, rows, properties, useGeoJson ): its return value and
\* the properties array afterwards
WrapResult(type, rows, properties, useGeoJson, idColumn) ==
    LET made == WrapFeatures(type, rows, properties, idColumn)
        result == [type |-> "FeatureCollection", features |-> made.features]
    IN [result |-> IF ~useGeoJson THEN Topology(result) ELSE result,
        properties |-> made.properties]

\* the features of a returned document, whatever its format
FeaturesOf(result) ==
    IF result.type = "Topology" THEN result.objects.data.features
    ELSE result.features

-----------------------------------------------------------------------------
(* Values that are idle while another part of the program is explored *)

NoReqParams ==
    [ids |-> Undefined, query |-> Undefined, idcolumn |-> "",
     getgeojson |-> Undefined, sql |-> "", arg1 |-> Undefined]

Requests == {"r1", "r2"}

NoPromise == [state |-> "idle"]

ParseIdle == pReq = NoReqParams /\ pRes = [state |-> "idle"]

IdleRequest ==
    [type |-> "geoshape", reqParams |-> NoReqParams, xClientIp |-> "none",
     metrics |-> FALSE]

\* the requests given by inputs are about to be constructed, the others
\* (IdleRequest) never are
ExecStart(inputs) ==
    /\ req = inputs
    /\ pc = [r \in Requests |-> IF inputs[r] = IdleRequest THEN "none"
                                 ELSE "new"]
    /\ self = [r \in Requests |-> ParseErr("unbuilt")]
    /\ raw = [r \in Requests |-> <<>>]
    /\ sql = [r \in Requests |-> NoPromise]
    /\ exp = [r \in Requests |-> NoPromise]
    /\ join = [r \in Requests |-> NoPromise]
    /\ out = [r \in Requests |-> NoPromise]
    /\ calls = [r \in Requests |-> [wdqs |-> <<>>, mwapi |-> <<>>, db |-> <<>>,
                                     wrap |-> <<>>, metrics |-> <<>>]]

ExecIdle == ExecStart([r \in Requests |-> IdleRequest])

WrapIdle == wIn = None /\ wProps = None /\ wOut = None

-----------------------------------------------------------------------------
(* core.registerTileliveModule *)

ModuleNames == {"m1", "m2"}

\* what _npmLoader( moduleName ) finds: nothing (it throws), or a module
\* with or without each of the three entry points; hookThrows tells whether
\* the entry point that gets called throws
NpmModules ==
    {m \in [found : BOOLEAN, initKartotherian : BOOLEAN,
            registerProtocols : BOOLEAN, isFunction : BOOLEAN,
            hookThrows : BOOLEAN] :
        /\ ~m.found => ~(m.initKartotherian \/ m.registerProtocols
                            \/ m.isFunction)
        /\ m.hookThrows =>
            (m.initKartotherian \/ m.registerProtocols \/ m.isFunction)}

\* the entry point the if / else-if chain selects, "none" for its final else
HookOf(module) ==
    IF module.initKartotherian THEN "initKartotherian"
    ELSE IF module.registerProtocols THEN "registerProtocols"
    ELSE IF module.isFunction THEN "function"
    ELSE "none"

\* what one pass through the body of the inner if does with the module
LoadAndInit(moduleName, module) ==
    IF ~module.found
    THEN [name |-> moduleName, loaded |-> TRUE, hook |-> "none",
          threw |-> TRUE]
    ELSE [name |-> moduleName, loaded |-> TRUE, hook |-> HookOf(module),
          threw |-> HookOf(module) = "none" \/ module.hookThrows]

NoLoad(moduleName) ==
    [name |-> moduleName, loaded |-> FALSE, hook |-> "none", threw |-> FALSE]

\* the names that are truthy keys of core._registeredModules
RegisteredNames(registered) == IF registered.some THEN registered.v ELSE {}

registerTileliveModuleMarkLate(registered, modules, moduleName) ==
    LET names == RegisteredNames(registered)
        call == LoadAndInit(moduleName, modules[moduleName])
    IN IF moduleName \in names
       THEN [registered |-> Some(names), call |-> NoLoad(moduleName)]
       ELSE [registered |-> IF call.threw THEN Some(names)
                            ELSE Some(names \cup {moduleName}),
             call |-> call]

\* core.registerTileliveModule( moduleName ): the new value of
\* core._registeredModules and what the call did.  The name is marked before
\* the module is loaded, so it stays marked when the load or the entry
\* point throws.
registerTileliveModule(registered, modules, moduleName) ==
    LET names == RegisteredNames(registered)
    IN IF moduleName \in names
       THEN [registered |-> Some(names), call |-> NoLoad(moduleName)]
       ELSE [registered |-> Some(names \cup {moduleName}),
             call |-> LoadAndInit(moduleName, modules[moduleName])]

CoreIdle ==
    /\ npmModules = [n \in ModuleNames |-> [found |-> FALSE,
            initKartotherian |-> FALSE, registerProtocols |-> FALSE,
            isFunction |-> FALSE, hookThrows |-> FALSE]]
    /\ registeredModules = None
    /\ coreLog = <<>>

-----------------------------------------------------------------------------
(* Promise.all of the two concurrent branches of execute *)

PromiseAllSettled(old, a, b) ==
    IF old.state # "pending" THEN old
    ELSE IF a.state # "pending" /\ b.state # "pending"
    THEN [state |-> "resolved"]
    ELSE old

\* the state of Promise.all( [ a, b ] ) after a or b has changed: it rejects
\* with the first rejection and resolves once both have resolved
PromiseAll(old, a, b) ==
    IF old.state # "pending" THEN old
    ELSE IF a.state = "rejected" THEN Rejected(a.err)
    ELSE IF b.state = "rejected" THEN Rejected(b.err)
    ELSE IF a.state = "resolved" /\ b.state = "resolved"
    THEN [state |-> "resolved"]
    ELSE old

-----------------------------------------------------------------------------
(* What the three collaborators may answer *)

SparqlJson == "application/sparql-results+json"

GraphBindings ==
    {<<>>,
     <<[id |-> WdUri(Q1), marker_color |-> WdLiteral(<<"r">>)]>>,
     <<[id |-> WdUri(Q3), geo |-> WdLiteral(<<"P">>)]>>,
     <<[item |-> WdUri(Q1)]>>,
     <<[id |-> WdLiteral(<<"x">>)]>>}

GraphResponses(call) ==
    IF ~Truthy(call.uri) THEN {[kind |-> "reject"]}
    ELSE {[kind |-> "reject"]} \cup
         {[kind |-> "response", contentType |-> "text/html",
           hasBindings |-> FALSE, bindings |-> <<>>],
          [kind |-> "response", contentType |-> SparqlJson,
           hasBindings |-> FALSE, bindings |-> <<>>]} \cup
         {[kind |-> "response", contentType |-> SparqlJson,
           hasBindings |-> TRUE, bindings |-> b] : b \in GraphBindings}

GeometryText == <<"[", "1", ",", "2", "]">>

DbResponses(call) ==
    {[kind |-> "reject"]} \cup
    {[kind |-> "rows",
      rows |-> [i \in 1..n |-> [id |-> call.ids[i], data |-> GeometryText]]] :
        n \in {0, 1, Len(call.ids)}}

MwapiResponses(call) ==
    {[kind |-> k] : k \in {"reject", "apiError", "notArray"}} \cup
    {[kind |-> "sanitized",
      sanitized |-> [i \in 1..n |-> [id |-> call.text[i].id,
                                     properties |-> call.text[i].properties]]] :
        n \in {0, Len(call.text)}}

-----------------------------------------------------------------------------
(* The constructor and execute *)

Log(r, field, entries) ==
    [calls EXCEPT ![r][field] = @ \o entries]

\* new GeoShapes( type, reqParams, config ): _parseParams throws or sets the
\* fields of the object
Construct(r) ==
    /\ pc[r] = "new"
    /\ LET p == ParseParams(config, req[r].reqParams) IN
        /\ self' = [self EXCEPT ![r] = p]
        /\ pc' = [pc EXCEPT ![r] = IF p.err = "none" THEN "ready"
                                   ELSE "ctorError"]
    /\ UNCHANGED <<config, parseVars, wrapVars, coreVars, req, raw, sql, exp, join, out,
                   calls>>

\* execute( xClientIp, metrics ) up to the await of _runWikidataQuery
Execute(r) ==
    /\ pc[r] = "ready"
    /\ out' = [out EXCEPT ![r] = Pending]
    /\ LET query == EffectiveQuery(req[r].type, self[r].sparqlQuery,
                                   self[r].ids)
           headers == ObjectAssign(config.sparqlHeaders,
                                   [ip |-> req[r].xClientIp])
       IN IF ~Truthy(query)
          THEN /\ pc' = [pc EXCEPT ![r] = "fanout"]
               /\ raw' = [raw EXCEPT ![r] = <<>>]
               /\ UNCHANGED <<config, calls>>
          ELSE /\ config' = [config EXCEPT !.sparqlHeaders = headers]
               /\ calls' = Log(r, "wdqs",
                    <<[uri |-> config.wikidataQueryService, query |-> query,
                       headers |-> headers]>>)
               /\ pc' = [pc EXCEPT ![r] = "awaitGraph"]
               /\ UNCHANGED raw
    /\ UNCHANGED <<parseVars, wrapVars, coreVars, req, self, sql, exp, join>>

\* preq.get settles and _runWikidataQuery runs to its end
GraphSettle(r) ==
    /\ pc[r] = "awaitGraph"
    /\ \E resp \in GraphResponses(calls[r].wdqs[Len(calls[r].wdqs)]) :
        LET res == WikidataQueryResult(resp, self[r].idColumn) IN
        IF res.err # "none"
        THEN /\ out' = [out EXCEPT ![r] = Rejected(res.err)]
             /\ pc' = [pc EXCEPT ![r] = "done"]
             /\ UNCHANGED raw
        ELSE /\ raw' = [raw EXCEPT ![r] = res.rows]
             /\ pc' = [pc EXCEPT ![r] = "fanout"]
             /\ UNCHANGED out
    /\ UNCHANGED <<config, parseVars, wrapVars, coreVars, req, self, sql, exp, join,
                   calls>>

\* the ids handed to _runSqlQuery: [ ...new Set( [ ...ids, ...queriedIds ] ) ]
AllIds(ids, rawProperties) ==
    NewSet(ids \o [i \in 1..Len(rawProperties) |-> rawProperties[i].id])

\* execute between its two awaits: both branches are started, in this
\* order, before either can settle
Fanout(r) ==
    /\ pc[r] = "fanout"
    /\ LET s == RunSqlQuery(req[r].type, AllIds(self[r].ids, raw[r]),
                            self[r].queryName, req[r].reqParams)
           e == ExpandProperties(raw[r])
       IN /\ sql' = [sql EXCEPT ![r] = s.promise]
          /\ exp' = [exp EXCEPT ![r] = e.promise]
          /\ join' = [join EXCEPT ![r] = PromiseAll(Pending, s.promise,
                                                    e.promise)]
          /\ calls' = [calls EXCEPT ![r].db = @ \o s.dbCall,
                                    ![r].mwapi = @ \o e.mwapiCall]
    /\ pc' = [pc EXCEPT ![r] = "awaitAll"]
    /\ UNCHANGED <<config, parseVars, wrapVars, coreVars, req, self, raw, out>>

\* db.query settles
SqlSettle(r) ==
    /\ sql[r].state = "pending"
    /\ \E resp \in DbResponses(calls[r].db[Len(calls[r].db)]) :
        LET p == IF resp.kind = "reject" THEN Rejected("DbError")
                 ELSE Resolved(resp.rows)
        IN /\ sql' = [sql EXCEPT ![r] = p]
           /\ join' = [join EXCEPT ![r] = PromiseAll(@, p, exp[r])]
    /\ UNCHANGED <<config, parseVars, wrapVars, coreVars, req, pc, self, raw, exp, out,
                   calls>>

\* preq.post settles and _expandProperties runs to its end
ExpSettle(r) ==
    /\ exp[r].state = "pending"
    /\ \E resp \in MwapiResponses(calls[r].mwapi[Len(calls[r].mwapi)]) :
        LET p == SanitizeResult(resp)
        IN /\ exp' = [exp EXCEPT ![r] = p]
           /\ join' = [join EXCEPT ![r] = PromiseAll(@, sql[r], p)]
    /\ UNCHANGED <<config, parseVars, wrapVars, coreVars, req, pc, self, raw, sql, out,
                   calls>>

\* the await of Promise.all throws: execute rejects
JoinReject(r) ==
    /\ pc[r] = "awaitAll"
    /\ join[r].state = "rejected"
    /\ out' = [out EXCEPT ![r] = Rejected(join[r].err)]
    /\ pc' = [pc EXCEPT ![r] = "done"]
    /\ UNCHANGED <<config, parseVars, wrapVars, coreVars, req, self, raw, sql, exp, join,
                   calls>>

\* the await of Promise.all returns: _wrapResult, metrics, return
JoinResolve(r) ==
    /\ pc[r] = "awaitAll"
    /\ join[r].state = "resolved"
    /\ LET geoRows == IF sql[r].state = "resolved" THEN Some(sql[r].value)
                      ELSE None
           cleanProperties == IF exp[r].state = "resolved" THEN exp[r].value
                              ELSE None
           w == WrapResult(req[r].type, geoRows, cleanProperties,
                           self[r].useGeoJson, self[r].idColumn)
           metric == <<req[r].type,
                       IF Truthy(self[r].sparqlQuery) THEN ".wdqs" ELSE ".ids">>
       IN /\ out' = [out EXCEPT ![r] = Resolved(w.result)]
          /\ calls' = [calls EXCEPT
                ![r].wrap = Append(@, [rows |-> geoRows,
                                       properties |-> cleanProperties]),
                ![r].metrics = IF req[r].metrics THEN Append(@, metric)
                               ELSE @]
    /\ pc' = [pc EXCEPT ![r] = "done"]
    /\ UNCHANGED <<config, parseVars, wrapVars, coreVars, req, self, raw, sql, exp, join>>

Next ==
    \E r \in Requests :
        \/ Construct(r)
        \/ Execute(r)
        \/ GraphSettle(r)
        \/ Fanout(r)
        \/ SqlSettle(r)
        \/ ExpSettle(r)
        \/ JoinReject(r)
        \/ JoinResolve(r)

\* the raw inputs of one request
IdInputs ==
    {Undefined, <<",">>, Q1, <<"q", "1">>, Join(<<Q1, Q2>>, ","),
     Join(<<Q1, Q2, Q3>>, ",")}

ArgInputs == {Undefined, <<"x">>, <<"1", ".", "5">>, <<"1", "x">>}

RequestInputs ==
    {[type |-> t, xClientIp |-> "ipA", metrics |-> m,
      reqParams |-> [ids |-> i, query |-> q, idcolumn |-> c,
                     getgeojson |-> g, sql |-> k, arg1 |-> a]] :
        t \in {"geoshape", "geoline", "geopoint"}, m \in BOOLEAN,
        i \in IdInputs, q \in {Undefined, SomeQuery}, c \in {"", "item"},
        g \in {Undefined, <<"1">>}, k \in {"", "simple"}, a \in ArgInputs}

\* one request at a time, over all raw inputs
Init ==
    /\ config \in Configs
    /\ ParseIdle
    /\ WrapIdle
    /\ CoreIdle
    /\ \E i \in RequestInputs :
        ExecStart([r \in Requests |-> IF r = "r1" THEN i ELSE IdleRequest])

Spec == Init /\ [][Next]_vars

\* two requests on the same configuration, in any interleaving
SharedInputs(ip) ==
    {[IdleRequest EXCEPT !.type = t, !.xClientIp = ip, !.reqParams.ids = Q1,
                         !.reqParams.query = q] :
        t \in {"geoshape", "geopoint"}, q \in {Undefined, SomeQuery}}

InitShared ==
    /\ config \in Configs
    /\ ParseIdle
    /\ WrapIdle
    /\ CoreIdle
    /\ \E a \in SharedInputs("ipA") : \E b \in SharedInputs("ipB") :
        ExecStart([r \in Requests |-> IF r = "r1" THEN a ELSE b])

SpecShared == InitShared /\ [][Next]_vars

-----------------------------------------------------------------------------
(* Claims about execute *)

Failed(p) == p.state = "rejected"

\* C1: once the sanitization branch or the spatial branch of a request has
\* rejected, whatever the other branch does and in whatever order they
\* settle, _wrapResult is never invoked for that request, execute never
\* resolves with a document, and when execute ends it has rejected.
C1_NoAssemblyAfterFailure ==
    \A r \in Requests :
        (Failed(sql[r]) \/ Failed(exp[r])) =>
            /\ calls[r].wrap = <<>>
            /\ out[r].state # "resolved"
            /\ (pc[r] = "done" => Failed(out[r]))

C1_Witness ==
    \E r \in Requests :
        /\ pc[r] = "done"
        /\ Failed(out[r])
        /\ Failed(exp[r])
        /\ sql[r].state = "resolved"
        /\ sql[r].value # <<>>

NoCalls(r) ==
    calls[r].wdqs = <<>> /\ calls[r].mwapi = <<>> /\ calls[r].db = <<>>

\* the error is raised for request r: thrown by the constructor, or thrown
\* by _runSqlQuery
Raised(r, e) ==
    \/ pc[r] = "ctorError" /\ self[r].err = e
    \/ Failed(sql[r]) /\ sql[r].err = e

\* C2 (as claimed): every validation error (missing input, invalid or too
\* many ids, invalid template parameter) is raised before any call to the
\* graph-query endpoint, the sanitization endpoint or the spatial store is
\* issued for the request, and leaves no side effect.
C2_Original ==
    \A r \in Requests :
        (\E e \in {"InvalidInput", "TooManyIds", "InvalidId", "InvalidParam"} :
            Raised(r, e))
        => (NoCalls(r) /\ config \in Configs)

\* C2 (amended): a missing-input, too-many-ids or invalid-id error is raised
\* by the constructor before any call is issued for the request and leaves
\* the configuration as it was.  An invalid-template-parameter error is
\* raised by _runSqlQuery: the spatial store is never queried for the
\* request, but the graph query (when the request has one) has already been
\* sent, and the sanitization call (when the graph query returned rows) is
\* still issued.
C2_ValidationTiming ==
    \A r \in Requests :
        /\ (\E e \in {"InvalidInput", "TooManyIds", "InvalidId"} : Raised(r, e))
            => (NoCalls(r) /\ config \in Configs)
        /\ Raised(r, "InvalidParam") =>
            /\ calls[r].db = <<>>
            /\ Len(calls[r].wdqs) =
                (IF Truthy(EffectiveQuery(req[r].type, self[r].sparqlQuery,
                                          self[r].ids)) THEN 1 ELSE 0)
            /\ Len(calls[r].mwapi) = (IF raw[r] # <<>> THEN 1 ELSE 0)

C2_Witness ==
    \E r \in Requests :
        /\ Raised(r, "InvalidParam")
        /\ calls[r].wdqs # <<>>
        /\ calls[r].mwapi # <<>>
        /\ config \notin Configs

\* the value the request supplies for a template parameter, Undefined when
\* the parameter has no name or the request has no (non-empty) value for it
Supplied(r, param) ==
    IF param.name # "" /\ Truthy(req[r].reqParams[param.name])
    THEN req[r].reqParams[param.name]
    ELSE Undefined

\* _runSqlQuery of request r has gone past its short-circuit
SqlQueryBuilt(r) ==
    /\ sql[r].state # "idle"
    /\ req[r].type # "geopoint"
    /\ AllIds(self[r].ids, raw[r]) # <<>>

\* C3 (as claimed): every argument passed to the spatial store in the
\* position of a template parameter is the template's default or a supplied
\* value that is a numeric literal; a supplied value that is no numeric
\* literal makes _runSqlQuery fail with InvalidParam and never reaches
\* db.query.
C3_NumericParamsOnly ==
    \A r \in Requests :
        LET params == QueryFor(req[r].reqParams.sql).params IN
        /\ \A c \in Range(calls[r].db) :
            /\ Len(c.params) = Len(params)
            /\ \A i \in 1..Len(params) :
                \/ c.params[i] = params[i].default
                \/ /\ c.params[i] = Supplied(r, params[i])
                   /\ IsNumericLiteral(c.params[i])
        /\ (/\ SqlQueryBuilt(r)
            /\ \E i \in 1..Len(params) :
                /\ Supplied(r, params[i]) # Undefined
                /\ ~IsNumericLiteral(Supplied(r, params[i])))
            => (Raised(r, "InvalidParam") /\ calls[r].db = <<>>)

\* C8 (as claimed): the configuration handed to GeoShapes, its graph-query
\* headers included, is the same after any interleaving of requests, and
\* the graph query of a request carries the configured headers and the
\* client IP of that request only.
C8_ConfigUnchanged ==
    /\ config \in Configs
    /\ \A r \in Requests : \A c \in Range(calls[r].wdqs) :
        c.headers = ObjectAssign(SparqlHeaders0, [ip |-> req[r].xClientIp])

\* C9: for point kind, or when the union of explicit and graph-resolved ids
\* is empty, _runSqlQuery resolves with an empty row sequence and the
\* spatial store is never queried for the request, whatever template
\* parameters the request supplies.
C9_ShortCircuit ==
    \A r \in Requests :
        (/\ sql[r].state # "idle"
         /\ (req[r].type = "geopoint" \/ AllIds(self[r].ids, raw[r]) = <<>>))
        => (sql[r] = Resolved(<<>>) /\ calls[r].db = <<>>)

C9_Witness ==
    \E r \in Requests :
        /\ pc[r] = "done"
        /\ out[r].state = "resolved"
        /\ req[r].type = "geopoint"
        /\ AllIds(self[r].ids, raw[r]) # <<>>
        /\ req[r].reqParams.sql = ""
        /\ Supplied(r, queries.default.params[1]) # Undefined
        /\ FloatRegexTest(Supplied(r, queries.default.params[1]))

\* request r is a constructed line/polygon request with explicit ids and
\* no graph query
ExplicitShape(r) ==
    /\ pc[r] \in {"ready", "awaitGraph", "fanout", "awaitAll", "done"}
    /\ req[r].type \in {"geoshape", "geoline"}
    /\ ~Truthy(req[r].reqParams.query)
    /\ self[r].ids # <<>>

AllPropertiesEmpty(result) ==
    \A i \in 1..Len(FeaturesOf(result)) :
        FeaturesOf(result)[i].properties = EmptyObject

\* C13 (as claimed): a line/polygon request with explicit ids and no graph
\* query contacts neither the graph-query endpoint nor the sanitization
\* endpoint: the graph runner returns no rows, the sanitizer returns
\* undefined without a call, the spatial store is queried exactly once with
\* exactly the explicit ids, and the request succeeds with features that all
\* have empty properties.
C13_Original ==
    \A r \in Requests :
        ExplicitShape(r) =>
            /\ calls[r].wdqs = <<>>
            /\ calls[r].mwapi = <<>>
            /\ sql[r].state # "idle" =>
                /\ raw[r] = <<>>
                /\ exp[r] = Resolved(None)
                /\ Len(calls[r].db) = 1
                /\ calls[r].db[1].ids = self[r].ids
            /\ pc[r] = "done" =>
                /\ out[r].state = "resolved"
                /\ AllPropertiesEmpty(out[r].value)

\* C13 (amended): such a request contacts neither the graph-query endpoint
\* nor the sanitization endpoint: the graph runner returns no rows and the
\* sanitizer returns undefined without a call.  The spatial store is queried
\* exactly once with exactly the explicit ids, unless _runSqlQuery rejects a
\* supplied template parameter with InvalidParam: then it is not queried at
\* all.  The request succeeds when the spatial query resolves, with one
\* feature per returned row, all with empty properties, and fails otherwise.
C13_ExplicitIdsOnly ==
    \A r \in Requests :
        ExplicitShape(r) =>
            /\ calls[r].wdqs = <<>>
            /\ calls[r].mwapi = <<>>
            /\ sql[r].state # "idle" =>
                /\ raw[r] = <<>>
                /\ exp[r] = Resolved(None)
                /\ IF Raised(r, "InvalidParam") THEN calls[r].db = <<>>
                   ELSE /\ Len(calls[r].db) = 1
                        /\ calls[r].db[1].ids = self[r].ids
            /\ pc[r] = "done" =>
                IF sql[r].state = "resolved"
                THEN /\ out[r].state = "resolved"
                     /\ Len(FeaturesOf(out[r].value)) = Len(sql[r].value)
                     /\ AllPropertiesEmpty(out[r].value)
                ELSE Failed(out[r])

C13_Witness ==
    \E r \in Requests :
        /\ ExplicitShape(r)
        /\ pc[r] = "done"
        /\ out[r].state = "resolved"
        /\ Len(self[r].ids) = 2
        /\ calls[r].db[1].ids = self[r].ids
        /\ Len(FeaturesOf(out[r].value)) = 2

-----------------------------------------------------------------------------
(* Specification of _parseParams on bounded raw inputs *)

\* "Q1" followed by n zeros
LongId(n) == Q1 \o [i \in 1..n |-> "0"]

TokenPool ==
    {Q1, Q2, <<"Q", "3", "0">>, <<"q", "1">>, <<"Q", "0">>, <<>>,
     LongId(15), LongId(16)}

RawIdLists ==
    {Undefined} \cup
    {Join(toks, ",") :
        toks \in UNION {[1..n -> TokenPool] : n \in 0..MaxTokens}}

InitParse ==
    /\ config \in Configs
    /\ pReq \in {[NoReqParams EXCEPT !.ids = i, !.query = q] :
                    i \in RawIdLists, q \in {Undefined, SomeQuery}}
    /\ pRes = [state |-> "pending"]
    /\ ExecIdle
    /\ WrapIdle
    /\ CoreIdle

\* one call of _parseParams( reqParams )
ParseStep ==
    /\ pRes.state = "pending"
    /\ pRes' = [state |-> "done", r |-> ParseParams(config, pReq)]
    /\ UNCHANGED <<config, pReq, execVars, wrapVars, coreVars>>

NextParse == ParseStep

SpecParse == InitParse /\ [][NextParse]_vars

-----------------------------------------------------------------------------
(* Claims about _parseParams *)

\* the distinct non-empty tokens of a raw id list: the maximal comma-free
\* substrings, stated without the code's split
TokensOf(s) ==
    IF s = Undefined THEN {}
    ELSE {SubSeq(s, p[1], p[2]) :
            p \in {q \in (1..Len(s)) \X (1..Len(s)) :
                      /\ q[1] <= q[2]
                      /\ (q[1] = 1 \/ s[q[1] - 1] = ",")
                      /\ (q[2] = Len(s) \/ s[q[2] + 1] = ",")
                      /\ \A k \in q[1]..q[2] : s[k] # ","}}

\* the entity-id grammar: uppercase Q, a non-zero digit, at most 15 more digits
IsEntityId(t) ==
    \E n \in 0..15 :
        /\ Len(t) = n + 2
        /\ t[1] = "Q"
        /\ t[2] \in {"1", "2", "3", "4", "5", "6", "7", "8", "9"}
        /\ \A k \in 3..(n + 2) : t[k] \in Digits

Parsed == pRes.state = "done"

ParseOk == Parsed /\ pRes.r.err = "none"

\* an earlier check of _parseParams fires: no input at all, or a query while
\* the graph-query service is not configured
NoInput == ~Truthy(pReq.ids) /\ ~Truthy(pReq.query)

QueryDisabled == Truthy(pReq.query) /\ ~Truthy(config.wikidataQueryService)

ValidIdList ==
    /\ \A t \in TokensOf(pReq.ids) : IsEntityId(t)
    /\ Cardinality(TokensOf(pReq.ids)) <= config.maxidcount

ExactIds ==
    /\ ParseOk
    /\ Range(pRes.r.ids) = TokensOf(pReq.ids)
    /\ Len(pRes.r.ids) = Cardinality(Range(pRes.r.ids))
    /\ <<>> \notin Range(pRes.r.ids)

\* C4 (as claimed): every Request returned by _parseParams has a non-empty
\* explicit id set or a non-empty graph query.
C4_RequestNotEmpty ==
    ParseOk => (pRes.r.ids # <<>> \/ Truthy(pRes.r.sparqlQuery))

\* C5 (as claimed): every id list whose distinct non-empty tokens are all
\* entity ids and number at most the maximum is accepted, and the resulting
\* ids are exactly those tokens.
C5_Original == (Parsed /\ ValidIdList) => ExactIds

\* C5 (amended): the same, provided the two checks that precede the id list
\* pass: some input is given (a non-empty id list or a query) and a query is
\* only given when the graph-query service is configured.
C5_ValidListAccepted ==
    (Parsed /\ ValidIdList /\ ~NoInput /\ ~QueryDisabled) => ExactIds

C5_Witness ==
    /\ ParseOk
    /\ Cardinality(TokensOf(pReq.ids)) = 2
    /\ Len(Split(pReq.ids, ",")) > 2

\* C6 (as claimed): an id list with more distinct non-empty ids than the
\* maximum fails with TooManyIds.
C6_Original ==
    (Parsed /\ Cardinality(TokensOf(pReq.ids)) > config.maxidcount)
        => pRes.r.err = "TooManyIds"

\* C6 (amended): such a list fails with TooManyIds, whatever its ids look
\* like, unless a query is supplied while the graph-query service is not
\* configured: then the request fails with FeatureDisabled.
C6_TooManyIds ==
    (Parsed /\ Cardinality(TokensOf(pReq.ids)) > config.maxidcount)
        => pRes.r.err = IF QueryDisabled THEN "FeatureDisabled" ELSE "TooManyIds"

C6_Witness ==
    /\ Parsed
    /\ pRes.r.err = "TooManyIds"
    /\ \E t \in TokensOf(pReq.ids) : ~IsEntityId(t)

\* C7 (as claimed): an id list with at least one id outside the entity-id
\* grammar fails with InvalidId.
C7_Original ==
    (Parsed /\ \E t \in TokensOf(pReq.ids) : ~IsEntityId(t))
        => pRes.r.err = "InvalidId"

\* C7 (amended): such a list always fails: with FeatureDisabled when a query
\* is supplied while the graph-query service is not configured, else with
\* TooManyIds when it has more distinct ids than the maximum, else with
\* InvalidId.
C7_InvalidId ==
    (Parsed /\ \E t \in TokensOf(pReq.ids) : ~IsEntityId(t))
        => pRes.r.err =
            IF QueryDisabled THEN "FeatureDisabled"
            ELSE IF Cardinality(TokensOf(pReq.ids)) > config.maxidcount
                 THEN "TooManyIds"
                 ELSE "InvalidId"

C7_Witness ==
    /\ Parsed
    /\ pRes.r.err = "InvalidId"
    /\ LongId(16) \in TokensOf(pReq.ids)

-----------------------------------------------------------------------------
(* Specification of _wrapResult on bounded arguments *)

\* serialized geometries the spatial store may return, with their values
GeometryTexts ==
    {[text |-> <<"[", "1", ",", "2", "]">>, value |-> <<1, 2>>],
     [text |-> <<"[", "3", "]">>, value |-> <<3>>]}

GeometryRows == {[id |-> i, data |-> g.text] : i \in {Q1, Q2}, g \in GeometryTexts}

CleanPropertyRows ==
    {[id |-> Q1, name |-> <<"x">>],
     [id |-> Q1, name |-> <<"y">>],
     [id |-> Q2, geo |-> <<"P">>, name |-> <<"x">>],
     [id |-> Q3, geo |-> <<"R">>]}

SeqsUpTo(S, n) == UNION {[1..k -> S] : k \in 0..n}

Optional(S) == {None} \cup {Some(x) : x \in S}

InitWrap ==
    /\ config \in {c \in Configs : c.wikidataQueryService = ServiceUrl}
    /\ ParseIdle
    /\ ExecIdle
    /\ CoreIdle
    /\ wIn \in {Some([type |-> t, rows |-> rows, properties |-> properties,
                      useGeoJson |-> g, idColumn |-> c]) :
                t \in {"geoshape", "geoline", "geopoint"},
                rows \in Optional(SeqsUpTo(GeometryRows, MaxRows)),
                properties \in Optional(SeqsUpTo(CleanPropertyRows, MaxProps)),
                g \in BOOLEAN, c \in {"", "name", "geo"}}
    \* execute hands _wrapResult the rows of _runSqlQuery, which are [] for
    \* point kind
    /\ wIn.v.type = "geopoint" => wIn.v.rows = Some(<<>>)
    /\ wProps = wIn.v.properties
    /\ wOut = None

\* one call of _wrapResult( type, rows, properties, useGeoJson )
WrapStep ==
    /\ wIn.some
    /\ ~wOut.some
    /\ LET w == WrapResult(wIn.v.type, wIn.v.rows, wProps, wIn.v.useGeoJson,
                           wIn.v.idColumn)
       IN /\ wOut' = Some(w.result)
          /\ wProps' = w.properties
    /\ UNCHANGED <<config, wIn, parseVars, execVars, coreVars>>

NextWrap == WrapStep

SpecWrap == InitWrap /\ [][NextWrap]_vars

-----------------------------------------------------------------------------
(* Claims about _wrapResult *)

Wrapped == wIn.some /\ wOut.some

ShapeKind == wIn.v.type \in {"geoshape", "geoline"}

\* the geometry rows and clean property rows handed to _wrapResult
InRows == IF wIn.v.rows.some THEN wIn.v.rows.v ELSE <<>>

InProps == IF wIn.v.properties.some THEN wIn.v.properties.v ELSE <<>>

OutFeatures == FeaturesOf(wOut.v)

GeometryOf(text) == (CHOOSE g \in GeometryTexts : g.text = text).value

\* C10: for line/polygon kind there is exactly one feature per geometry row,
\* in the order of the rows, with the row's id and parsed geometry; a row
\* whose id matches no clean property row (or when there are no clean
\* properties at all) has empty properties; no feature carries the id of a
\* clean property row that matches no geometry row.
C10_FeaturePerGeometryRow ==
    (Wrapped /\ ShapeKind) =>
        /\ Len(OutFeatures) = Len(InRows)
        /\ \A i \in 1..Len(InRows) :
            /\ OutFeatures[i].id = InRows[i].id
            /\ OutFeatures[i].geometry = GeometryOf(InRows[i].data)
            /\ (\A j \in 1..Len(InProps) : InProps[j].id # InRows[i].id)
                => OutFeatures[i].properties = EmptyObject
        /\ \A j \in 1..Len(InProps) :
            (\A i \in 1..Len(InRows) : InRows[i].id # InProps[j].id)
                => \A i \in 1..Len(OutFeatures) :
                    OutFeatures[i].id # InProps[j].id

C10_Witness ==
    /\ Wrapped
    /\ ShapeKind
    /\ Len(InRows) = 2
    /\ InRows[1].id # InRows[2].id
    /\ Len(InProps) = 2
    /\ InProps[1].id = Q3
    /\ InProps[2].id = InRows[2].id
    /\ OutFeatures[1].properties = EmptyObject
    /\ OutFeatures[2].properties # EmptyObject

PointKind == wIn.v.type = "geopoint"

\* the coordinate column of a clean property row, undefined when it has none
CoordinateOf(row) == IF "geo" \in DOMAIN row THEN row["geo"] ELSE Undefined

\* a row without the given columns
Minus(row, cols) == [k \in DOMAIN row \ cols |-> row[k]]

FirstWithId(id) ==
    IF \E j \in 1..Len(InProps) : InProps[j].id = id
    THEN CHOOSE j \in 1..Len(InProps) :
            InProps[j].id = id /\ \A k \in 1..(j - 1) : InProps[k].id # id
    ELSE 0

\* C12 (as claimed): for line/polygon kind, every feature whose geometry row
\* has the id of at least one clean property row carries the properties of
\* the first such row, minus the id, also when several geometry rows or
\* several property rows share an id.
C12_FirstMatchWins ==
    (Wrapped /\ ShapeKind) =>
        \A i \in 1..Len(InRows) :
            FirstWithId(InRows[i].id) # 0 =>
                /\ i <= Len(OutFeatures)
                /\ OutFeatures[i].properties =
                    Minus(InProps[FirstWithId(InRows[i].id)], {"id"})

-----------------------------------------------------------------------------
(* Specification of core.registerTileliveModule over any sequence of calls *)

InitCore ==
    /\ config \in {c \in Configs : c.wikidataQueryService = ServiceUrl}
    /\ ParseIdle
    /\ ExecIdle
    /\ WrapIdle
    /\ npmModules \in [ModuleNames -> NpmModules]
    /\ registeredModules = None
    /\ coreLog = <<>>

\* one call of core.registerTileliveModule( moduleName )
CallRegisterTileliveModule(moduleName) ==
    /\ Len(coreLog) < MaxCalls
    /\ LET c == registerTileliveModule(registeredModules, npmModules,
                                       moduleName)
       IN /\ registeredModules' = c.registered
          /\ coreLog' = Append(coreLog, c.call)
    /\ UNCHANGED <<config, parseVars, execVars, wrapVars, npmModules>>

NextCore ==
    \E moduleName \in ModuleNames : CallRegisterTileliveModule(moduleName)

SpecCore == InitCore /\ [][NextCore]_vars

-----------------------------------------------------------------------------
(* Claims about core.registerTileliveModule *)

\* the calls for name n that invoked _npmLoader
LoadsOf(n) ==
    {i \in 1..Len(coreLog) : coreLog[i].name = n /\ coreLog[i].loaded}

\* the calls for name n that invoked an entry point of the module
InitsOf(n) ==
    {i \in 1..Len(coreLog) : coreLog[i].name = n /\ coreLog[i].hook # "none"}

\* C14: for any sequence of core.registerTileliveModule calls, each module
\* name is loaded and initialised at most once: a call with an already-seen
\* name performs no load and no initialisation, also when the first call
\* for that name threw.
C14_LoadedAtMostOnce ==
    /\ \A n \in ModuleNames :
        /\ Cardinality(LoadsOf(n)) <= 1
        /\ Cardinality(InitsOf(n)) <= 1
    /\ \A i, j \in 1..Len(coreLog) :
        (j < i /\ coreLog[j].name = coreLog[i].name) =>
            /\ ~coreLog[i].loaded
            /\ coreLog[i].hook = "none"

C14_Witness ==
    \E i, j \in 1..Len(coreLog) :
        /\ j < i
        /\ coreLog[j].name = coreLog[i].name
        /\ coreLog[j].loaded
        /\ coreLog[j].hook # "none"
        /\ coreLog[j].threw
        /\ ~coreLog[i].loaded

====
